---- MODULE Spec2Model ----
(***************************************************************************)
(* Model of the retrieval code of My_RAG:                                  *)
(*   pyserini_retriever.py  HybridRetriever (sparse + dense hybrid search) *)
(*   pyserini_bm25.py       PyseriniBM25Retriever (Lucene index build,     *)
(*                          load and layered payload resolution)           *)
(*   recursiveChunker.py    recursive_chunk and its chunk cache            *)
(*   merge_model.py         merge_files (joins the parts of a model file)  *)
(* The four modules share no state.  A behaviour exercises one of them,   *)
(* named by the variable module; the variables of the others keep their    *)
(* initial values.                                                         *)
(***************************************************************************)
EXTENDS Integers, Sequences, FiniteSets, TLC

VARIABLES
    module,     \* the source module the behaviour exercises
    h_env,      \* pyserini_retriever: files and names the constructor looks up
    h_store,    \* pyserini_retriever: documents stored in the sparse index
    h_obj,      \* the HybridRetriever object, once constructed
    h_call,     \* the last HybridRetriever call and its outcome
    b_path,     \* pyserini_bm25: the index_path the program constructs with
    b_disk,     \* pyserini_bm25: the directory at index_path
    b_obj,      \* the PyseriniBM25Retriever object, once constructed
    b_call,     \* the last PyseriniBM25Retriever call and its outcome
    c_cache,    \* recursiveChunker: the files of ./chunk_cache, by (language, chunk_size)
    c_call,     \* the last recursive_chunk call and its outcome
    m_args,     \* merge_model: the arguments the script calls merge_files with
    m_dir,      \* merge_model: the directory merge_files works in
    m_call      \* the last merge_files call and its outcome

vars == <<module, h_env, h_store, h_obj, h_call, b_path, b_disk, b_obj, b_call,
          c_cache, c_call, m_args, m_dir, m_call>>

hvars == <<h_env, h_store, h_obj, h_call>>
bvars == <<b_path, b_disk, b_obj, b_call>>
cvars == <<c_cache, c_call>>
mvars == <<m_args, m_dir, m_call>>

-----------------------------------------------------------------------------
(* Bounds *)

\* number of doc-ids of the corpus
NumDocs == 2

\* backend scores are drawn from 1..MaxScore
MaxScore == 2

\* length of the node list handed to PyseriniBM25Retriever
MaxNodes == 2

\* number of documents of an index found at index_path before the first construction
MaxStored == 1

\* recursive_chunk: chunk_size is drawn from 1..MaxChunkSize, docs holds at most
\* MaxDocs documents, a content has at most MaxTextLen characters
MaxChunkSize == 2
MaxDocs == 1
MaxTextLen == 2

\* merge_files: a file name has at most MaxNameLen characters and the directory
\* holds at most MaxFiles files before the first call
MaxNameLen == 2
MaxFiles == 2

Docs == 1..NumDocs
Scores == 1..MaxScore
Langs == {"en", "zh"}

Min(a, b) == IF a < b THEN a ELSE b

SeqToSet(s) == {s[i] : i \in DOMAIN s}

\* the sequences without repetition over the set S
Perms(S) == {p \in [1..Cardinality(S) -> S] : \A i, j \in DOMAIN p : p[i] = p[j] => i = j}

-----------------------------------------------------------------------------
(* JSON text.  A string handed to json.loads either parses to an object    *)
(* (a function from keys to values) or is rejected with JSONDecodeError.   *)

EmptyObj == [k \in {} |-> ""]

\* json.dumps of an object
JsonDumps(obj) == [parses |-> TRUE, obj |-> obj]

\* a string that is not valid JSON (truncated, garbage)
NotJson == [parses |-> FALSE, obj |-> EmptyObj]

\* json.loads: ok = FALSE stands for JSONDecodeError
JsonLoads(s) == [ok |-> s.parses, v |-> s.obj]

\* dict.get(key, default)
Get(obj, key, default) == IF key \in DOMAIN obj THEN obj[key] ELSE default

-----------------------------------------------------------------------------
(* pyserini_retriever.py *)

\* LuceneSearcher.doc(docid): None, or a document with its raw() string
NoDoc == [found |-> FALSE, raw |-> NotJson]
StoredDoc(raw) == [found |-> TRUE, raw |-> raw]

\* the raw payloads a sparse index may hold for a document
HybridPayloads ==
    { NotJson,
      JsonDumps(EmptyObj),
      JsonDumps("contents" :> "text") }

HybridStores == [Docs -> {NoDoc} \cup {StoredDoc(r) : r \in HybridPayloads}]

\* a ranked list a backend returns: distinct doc-ids, scores not increasing
Hit == [docid : Docs, score : Scores]

RankedLists(D) ==
    { s \in UNION {[1..n -> Hit] : n \in 0..Cardinality(D)} :
        /\ \A i \in DOMAIN s : s[i].docid \in D
        /\ \A i, j \in DOMAIN s : i < j =>
              /\ s[i].docid # s[j].docid
              /\ s[i].score >= s[j].score }

DocIds(hits) == {hits[i].docid : i \in DOMAIN hits}

\* the score of doc-id d in a ranked list that holds it
ScoreOf(hits, d) == hits[CHOOSE i \in DOMAIN hits : hits[i].docid = d].score

MinScore(hits) == CHOOSE m \in {hits[i].score : i \in DOMAIN hits} :
                      \A i \in DOMAIN hits : m <= hits[i].score

\* HybridSearcher.search defaults: k0 = 10 candidates per backend, alpha = 0.1
\* (kept in tenths: every hybrid score below is ten times the library's)
K0 == 10
AlphaTenths == 1

\* HybridSearcher._hybrid_results without normalization: alpha * sparse + dense,
\* a document missing from a backend taking that backend's minimum score
HybridScore(dense, sparse, d) ==
    LET min_dense  == IF Len(dense) > 0 THEN MinScore(dense) ELSE 0
        min_sparse == IF Len(sparse) > 0 THEN MinScore(sparse) ELSE 0
        dense_score  == IF d \in DocIds(dense) THEN ScoreOf(dense, d) ELSE min_dense
        sparse_score == IF d \in DocIds(sparse) THEN ScoreOf(sparse, d) ELSE min_sparse
    IN  AlphaTenths * sparse_score + 10 * dense_score

\* HybridSearcher.search(query, k = top_k): both backends are asked for k0 hits,
\* the union is sorted by descending hybrid score and cut to k.  The union is a
\* Python set of doc-id strings, so hits of equal score come out in any order.
HybridSearch(dense_all, sparse_all, k) ==
    LET dense  == SubSeq(dense_all, 1, Min(K0, Len(dense_all)))
        sparse == SubSeq(sparse_all, 1, Min(K0, Len(sparse_all)))
        union  == DocIds(dense) \cup DocIds(sparse)
        sorted == {p \in Perms(union) : \A i, j \in DOMAIN p : i < j =>
                      HybridScore(dense, sparse, p[i]) >= HybridScore(dense, sparse, p[j])}
    IN  { [i \in 1..Min(k, Len(p)) |->
              [docid |-> p[i], score |-> HybridScore(dense, sparse, p[i])]] : p \in sorted }

\* the ratios retrieve attaches to every chunk (tenths)
sparse_ratio == 3
dense_ratio == 7

\* one pass of the loop of retrieve over hits[i..]: raised = TRUE stands for the
\* JSONDecodeError of json.loads leaving the call
RECURSIVE ResolveHits(_, _, _, _)
ResolveHits(hits, i, store, chunks) ==
    IF i > Len(hits) THEN [raised |-> FALSE, chunks |-> chunks]
    ELSE LET hit == hits[i]
             original_doc == store[hit.docid]
         IN  IF ~original_doc.found THEN ResolveHits(hits, i + 1, store, chunks)
             ELSE LET raw_json == JsonLoads(original_doc.raw)
                  IN  IF ~raw_json.ok THEN [raised |-> TRUE, chunks |-> <<>>]
                      ELSE ResolveHits(hits, i + 1, store,
                              Append(chunks,
                                  [page_content |-> Get(raw_json.v, "contents", ""),
                                   id |-> hit.docid,
                                   score |-> hit.score,
                                   sparse_ratio |-> sparse_ratio,
                                   dense_ratio |-> dense_ratio]))

\* what the constructor finds: whether the name HybridSearcher is bound in the
\* module's namespace (the import at line 3 is commented out, so in the module
\* as given it is not), whether the encoder's config.json exists, and whether the
\* dense index can be opened
HybridEnvs == [hybridSearcherBound : BOOLEAN, config : BOOLEAN, denseIndex : BOOLEAN]

\* the object: its searchers exist once the constructor has run to its end
\* (self.language is written by the constructor and read nowhere: it is kept in
\* the record of the constructor call only)
NoObject == [constructed |-> FALSE]
IdleCall == [op |-> "idle", raised |-> "none", language |-> "en", sparse |-> <<>>,
             dense |-> <<>>, top_k |-> 0, hits |-> <<>>, chunks |-> <<>>]

\* HybridRetriever.__init__: the sparse searcher opens, the missing config.json
\* raises FileNotFoundError, a dense index that cannot be opened makes
\* FaissSearcher raise, and line 43 raises NameError unless HybridSearcher is bound
\* (mutant) a missing dense backend degrades to sparse-only instead of raising
InitOutcomeSparseOnly(env) ==
    IF ~env.hybridSearcherBound THEN "NameError" ELSE "none"

InitOutcome(env) ==
    IF ~env.config THEN "FileNotFoundError"
    ELSE IF ~env.denseIndex THEN "FaissError"
    ELSE IF ~env.hybridSearcherBound THEN "NameError"
    ELSE "none"

HybridInit ==
    /\ module = "pyserini_retriever"
    /\ h_call.op = "idle"
    /\ ~h_obj.constructed
    /\ \E language \in Langs :
          LET raised == InitOutcome(h_env)
          IN  /\ h_obj' = IF raised = "none" THEN [constructed |-> TRUE] ELSE h_obj
              /\ h_call' = [IdleCall EXCEPT !.op = "init", !.raised = raised,
                                            !.language = language]
    /\ UNCHANGED <<module, mvars, h_env, h_store, bvars, cvars>>

\* HybridRetriever.retrieve(query_text, top_k): the two ranked lists are what the
\* backends answer for the query; the sparse searcher only ranks documents it stores
HybridRetrieve ==
    /\ module = "pyserini_retriever"
    /\ h_call.op = "idle"
    /\ h_obj.constructed
    /\ \E sparse \in RankedLists({d \in Docs : h_store[d].found}),
          dense \in RankedLists(Docs),
          top_k \in 1..NumDocs :
          \E hits \in HybridSearch(dense, sparse, top_k) :
             LET r == ResolveHits(hits, 1, h_store, <<>>)
             IN  h_call' = [IdleCall EXCEPT
                               !.op = "retrieve",
                               !.raised = IF r.raised THEN "JSONDecodeError" ELSE "none",
                               !.sparse = sparse, !.dense = dense, !.top_k = top_k,
                               !.hits = hits, !.chunks = r.chunks]
    /\ UNCHANGED <<module, mvars, h_env, h_store, h_obj, bvars, cvars>>

\* the call is over: its result and locals are gone
HybridReturn ==
    /\ module = "pyserini_retriever"
    /\ h_call.op # "idle"
    /\ h_call' = IdleCall
    /\ UNCHANGED <<module, mvars, h_env, h_store, h_obj, bvars, cvars>>

-----------------------------------------------------------------------------
(* pyserini_bm25.py *)

\* TextNode: its text (get_content()) and its metadata
TextNode(text, metadata) == [text |-> text, metadata |-> metadata]

NodeTexts == {"", "a"}
NodeMetadatas == {EmptyObj, "k" :> "v"}
Nodes == {TextNode(t, m) : t \in NodeTexts, m \in NodeMetadatas}
NodeLists == UNION {[1..n -> Nodes] : n \in 0..MaxNodes}

\* the line _build_index writes to docs.jsonl for nodes[i], which the indexer
\* stores as the raw payload of doc_i (--storeRaw)
BuildPayload(i, node) ==
    LET content == node.text
    IN  JsonDumps(("id" :> i) @@ ("contents" :> content) @@
                  ("raw" :> JsonDumps(("original_content" :> content) @@
                                      ("metadata" :> node.metadata))))

\* the analyzer the indexer is run with: --language zh, else the default
BuildAnalyzer(language) == IF language = "zh" THEN "zh" ELSE "default"

\* the analyzer of the searcher: set_language("zh"), else the default
QueryAnalyzer(language) == IF language = "zh" THEN "zh" ELSE "default"

\* a Lucene index: the analyzer it was built with and the raw payloads of
\* doc_0, doc_1, ... (docs[i + 1] is the payload of doc_i)
Index(analyzer, docs) == [analyzer |-> analyzer, docs |-> docs]
EmptyIndex == Index("default", <<>>)

\* payloads of an index that was not written by this code or was damaged
ForeignInner ==
    { EmptyObj,
      "original_content" :> "",
      "original_content" :> "o",
      ("original_content" :> "o") @@ ("metadata" :> ("k" :> "v")) }

ForeignOuter ==
    { c @@ r : c \in {EmptyObj, "contents" :> "", "contents" :> "c"},
               r \in {EmptyObj, "raw" :> NotJson}
                        \cup {"raw" :> JsonDumps(inner) : inner \in ForeignInner} }

ForeignPayloads == {NotJson} \cup {JsonDumps(o) : o \in ForeignOuter}

ForeignIndexes ==
    { Index(a, docs) : a \in {"default", "zh"},
                       docs \in UNION {[1..n -> ForeignPayloads] : n \in 1..MaxStored} }

\* the directory at index_path: absent, left by a failed build (no index in
\* it), or holding an index
NoDir == [exists |-> FALSE, built |-> FALSE, index |-> EmptyIndex]
FailedDir == [exists |-> TRUE, built |-> FALSE, index |-> EmptyIndex]
BuiltDir(index) == [exists |-> TRUE, built |-> TRUE, index |-> index]

NoNode == [ok |-> FALSE, node |-> TextNode("", EmptyObj)]
SomeNode(node) == [ok |-> TRUE, node |-> node]

\* LuceneSearcher.doc(doc_id) on an index: None when it holds no such document
IndexDoc(index, doc_id) ==
    IF doc_id + 1 \in DOMAIN index.docs THEN StoredDoc(index.docs[doc_id + 1]) ELSE NoDoc

\* the body of the try of _rebuild_node_dict for one stored raw string: the
\* node it enters in the node dict, if any.  A JSONDecodeError leaves the try.
RebuildResolve(raw_str) ==
    LET outer_data == JsonLoads(raw_str)
    IN  IF ~outer_data.ok THEN NoNode
        ELSE LET has_inner == "raw" \in DOMAIN outer_data.v
                 inner_data == JsonLoads(outer_data.v["raw"])
                 content == Get(outer_data.v, "contents", "")
                 flat == IF content # "" THEN SomeNode(TextNode(content, EmptyObj))
                         ELSE NoNode
             IN  IF has_inner
                 THEN IF ~inner_data.ok THEN NoNode
                      ELSE IF Get(inner_data.v, "original_content", "") # ""
                           THEN SomeNode(TextNode(inner_data.v["original_content"],
                                                  Get(inner_data.v, "metadata", EmptyObj)))
                           ELSE flat
                 ELSE flat

\* (mutant) the node dict keyed one document off: doc_i gets the node of doc_(i+1)
RebuildNodeDictShifted(index, expected_count) ==
    LET resolved == {i \in 0..(expected_count - 1) :
                        /\ IndexDoc(index, i + 1).found
                        /\ RebuildResolve(IndexDoc(index, i + 1).raw).ok}
    IN  [i \in resolved |-> RebuildResolve(IndexDoc(index, i + 1).raw).node]

\* _rebuild_node_dict(searcher, expected_count)
RebuildNodeDict(index, expected_count) ==
    LET resolved == {i \in 0..(expected_count - 1) :
                        /\ IndexDoc(index, i).found
                        /\ RebuildResolve(IndexDoc(index, i).raw).ok}
    IN  [i \in resolved |-> RebuildResolve(IndexDoc(index, i).raw).node]

\* the fallback of _retrieve for one stored raw string: node, or None
RetrieveResolve(raw_str) ==
    LET outer_data == JsonLoads(raw_str)
    IN  IF ~outer_data.ok THEN NoNode
        ELSE LET has_inner == "raw" \in DOMAIN outer_data.v
                 inner_data == JsonLoads(outer_data.v["raw"])
                 nested == IF Get(inner_data.v, "original_content", "") # ""
                           THEN SomeNode(TextNode(inner_data.v["original_content"],
                                                  Get(inner_data.v, "metadata", EmptyObj)))
                           ELSE NoNode
                 content == Get(outer_data.v, "contents", "")
                 flat == IF content # "" THEN SomeNode(TextNode(content, EmptyObj))
                         ELSE NoNode
             IN  IF has_inner /\ ~inner_data.ok THEN NoNode
                 ELSE IF has_inner /\ nested.ok THEN nested
                 ELSE flat

\* the loop of _retrieve over hits[i..]; every result keeps the doc-id of its hit
RECURSIVE RetrieveLoop(_, _, _, _, _)
RetrieveLoop(hits, i, node_dict, index, results) ==
    IF i > Len(hits) THEN results
    ELSE LET doc_id == hits[i]
             doc == IndexDoc(index, doc_id)
             node == RetrieveResolve(doc.raw)
         IN  IF doc_id \in DOMAIN node_dict
             THEN RetrieveLoop(hits, i + 1, node_dict, index,
                      Append(results, [doc_id |-> doc_id, node |-> node_dict[doc_id]]))
             ELSE IF ~doc.found \/ ~node.ok
                  THEN RetrieveLoop(hits, i + 1, node_dict, index, results)
                  ELSE RetrieveLoop(hits, i + 1, node_dict, index,
                           Append(results, [doc_id |-> doc_id, node |-> node.node]))

\* similarity_top_k, the default
similarity_top_k == 100

\* the answers of LuceneSearcher.search(query, k): ranked doc-ids of the index
SearchAnswers(index, k) ==
    UNION { Perms(D) : D \in {E \in SUBSET {i - 1 : i \in DOMAIN index.docs} :
                                   Cardinality(E) <= k} }

NoBM25 == [constructed |-> FALSE, language |-> "en", node_dict |-> EmptyObj,
           index |-> EmptyIndex]
IdleBM25Call == [op |-> "idle", raised |-> "none", nodes |-> <<>>, language |-> "en",
                 pathExisted |-> FALSE, ranIndexer |-> FALSE, diskBefore |-> NoDir,
                 hits |-> <<>>, results |-> <<>>]

\* the index the indexer writes from docs.jsonl
BuiltIndex(nodes, language) ==
    Index(BuildAnalyzer(language), [i \in DOMAIN nodes |-> BuildPayload(i - 1, nodes[i])])

\* the node dict _build_index fills while it writes docs.jsonl
BuiltNodeDict(nodes) == [i \in {k - 1 : k \in DOMAIN nodes} |-> nodes[i + 1]]

\* PyseriniBM25Retriever.__init__ where index_path exists: _build_index opens
\* the searcher on it and rebuilds the node dict.  A directory without an index
\* makes LuceneSearcher raise.
BM25Load ==
    /\ module = "pyserini_bm25"
    /\ b_call.op = "idle"
    /\ b_path # "None" /\ b_disk.exists
    /\ \E nodes \in NodeLists, language \in Langs :
          LET call == [IdleBM25Call EXCEPT !.op = "init", !.nodes = nodes,
                           !.language = language, !.pathExisted = TRUE,
                           !.diskBefore = b_disk]
          IN  IF b_disk.built
              THEN /\ b_obj' = [constructed |-> TRUE, language |-> language,
                                node_dict |-> RebuildNodeDict(b_disk.index, Len(nodes)),
                                index |-> b_disk.index]
                   /\ b_call' = call
              ELSE /\ b_obj' = b_obj
                   /\ b_call' = [call EXCEPT !.raised = "LuceneError"]
    /\ UNCHANGED <<module, mvars, hvars, cvars, b_path, b_disk>>

\* PyseriniBM25Retriever.__init__ where index_path is None or does not exist:
\* the directory is made, docs.jsonl is written, the indexer runs and either
\* returns 0 or fails (RuntimeError)
BM25Build ==
    /\ module = "pyserini_bm25"
    /\ b_call.op = "idle"
    /\ b_path = "None" \/ ~b_disk.exists
    /\ \E nodes \in NodeLists, language \in Langs, returncode \in {0, 1} :
          LET call == [IdleBM25Call EXCEPT !.op = "init", !.nodes = nodes,
                           !.language = language, !.ranIndexer = TRUE,
                           !.diskBefore = b_disk]
              index == BuiltIndex(nodes, language)
          IN  /\ b_disk' = IF b_path = "None" THEN b_disk
                           ELSE IF returncode = 0 THEN BuiltDir(index) ELSE FailedDir
              /\ IF returncode = 0
                 THEN /\ b_obj' = [constructed |-> TRUE, language |-> language,
                                   node_dict |-> BuiltNodeDict(nodes), index |-> index]
                      /\ b_call' = call
                 ELSE /\ b_obj' = b_obj
                      /\ b_call' = [call EXCEPT !.raised = "RuntimeError"]
    /\ UNCHANGED <<module, mvars, hvars, cvars, b_path>>

\* PyseriniBM25Retriever._retrieve(query_bundle)
BM25Retrieve ==
    /\ module = "pyserini_bm25"
    /\ b_call.op = "idle"
    /\ b_obj.constructed
    /\ \E hits \in SearchAnswers(b_obj.index, similarity_top_k) :
          b_call' = [IdleBM25Call EXCEPT
                        !.op = "retrieve", !.hits = hits,
                        !.results = RetrieveLoop(hits, 1, b_obj.node_dict, b_obj.index, <<>>)]
    /\ UNCHANGED <<module, mvars, hvars, cvars, b_path, b_disk, b_obj>>

\* the call is over: its result and locals are gone
BM25Return ==
    /\ module = "pyserini_bm25"
    /\ b_call.op # "idle"
    /\ b_call' = IdleBM25Call
    /\ UNCHANGED <<module, mvars, hvars, cvars, b_path, b_disk, b_obj>>

-----------------------------------------------------------------------------
(* recursiveChunker.py *)

\* a text is a sequence of characters: the texts of the model are the prefixes
\* of the alphabet.  Its characters are none of the separators of either
\* language nor whitespace, so the splitter reaches its last separator "" and
\* text_chunk.strip() is empty only for an empty chunk.
Alphabet == <<"a", "b", "c", "d", "e", "f", "g", "h">>
Texts == {SubSeq(Alphabet, 1, n) : n \in 0..MaxTextLen}

\* a value of doc['content']: a str, or something that is not a str
StrValue(text) == [isStr |-> TRUE, chars |-> text]
NonStr == [isStr |-> FALSE, chars |-> <<>>]

\* the documents: 'content' and 'language' may be missing
ChunkDocs ==
    { c @@ l @@ ("name" :> "n") :
        c \in {EmptyObj} \cup {"content" :> v : v \in {NonStr} \cup {StrValue(t) : t \in Texts}},
        l \in {EmptyObj} \cup {"language" :> x : x \in Langs} }

DocLists == UNION {[1..n -> ChunkDocs] : n \in 0..MaxDocs}

\* the pops of _merge_splits after a chunk was emitted: while total > overlap,
\* or the next piece still does not fit
RECURSIVE PopFront(_, _, _)
PopFront(current, chunk_size, chunk_overlap) ==
    IF Len(current) > chunk_overlap \/ (Len(current) + 1 > chunk_size /\ Len(current) > 0)
    THEN PopFront(Tail(current), chunk_size, chunk_overlap)
    ELSE current

\* _merge_splits over the characters text[i..] with the separator "": current
\* is the chunk being filled, out the chunks emitted so far
RECURSIVE MergeSplits(_, _, _, _, _, _)
MergeSplits(text, i, current, out, chunk_size, chunk_overlap) ==
    IF i > Len(text) THEN (IF current = <<>> THEN out ELSE Append(out, current))
    ELSE IF Len(current) + 1 > chunk_size /\ Len(current) > 0
         THEN MergeSplits(text, i + 1,
                  Append(PopFront(current, chunk_size, chunk_overlap), text[i]),
                  Append(out, current), chunk_size, chunk_overlap)
         ELSE MergeSplits(text, i + 1, Append(current, text[i]), out,
                  chunk_size, chunk_overlap)

\* RecursiveCharacterTextSplitter.split_text on a text without separators: the
\* characters are the splits; a character as long as chunk_size is a chunk of
\* its own, shorter ones are merged
SplitText(text, chunk_size) ==
    IF 1 < chunk_size THEN MergeSplits(text, 1, <<>>, <<>>, chunk_size, chunk_size \div 5)
    ELSE [i \in DOMAIN text |-> <<text[i]>>]

\* doc.copy() with "content" popped
Meta(doc) == [k \in DOMAIN doc \ {"content"} |-> doc[k]]

\* the chunks of one document
DocChunks(doc, language, chunk_size) ==
    IF /\ "content" \in DOMAIN doc
       /\ doc["content"].isStr
       /\ "language" \in DOMAIN doc
       /\ doc["language"] = language
    THEN LET split_texts == SelectSeq(SplitText(doc["content"].chars, chunk_size),
                                      LAMBDA text_chunk : text_chunk # <<>>)
         IN  [i \in DOMAIN split_texts |->
                 [page_content |-> split_texts[i], metadata |-> Meta(doc)]]
    ELSE <<>>

\* the chunking pass of recursive_chunk over docs[i..]
RECURSIVE ChunkingPass(_, _, _, _)
ChunkingPass(docs, i, language, chunk_size) ==
    IF i > Len(docs) THEN <<>>
    ELSE DocChunks(docs[i], language, chunk_size)
            \o ChunkingPass(docs, i + 1, language, chunk_size)

\* a file of ./chunk_cache: absent, or its text
NoFile == [exists |-> FALSE, text |-> NotJson]
File(text) == [exists |-> TRUE, text |-> text]

CacheKeys == Langs \X (1..MaxChunkSize)

\* the files found in ./chunk_cache: absent, not parseable, or a chunk list
CachedChunks == <<[page_content |-> <<"a">>, metadata |-> ("name" :> "cached")]>>
CacheFiles == {NoFile, File(NotJson), File(JsonDumps(CachedChunks))}

IdleChunkCall == [op |-> "idle", raised |-> "none", docs |-> <<>>, language |-> "en",
                  chunk_size |-> 0, chunks |-> <<>>, cacheBefore |-> <<>>]

\* (mutant) the miss path writes the chunks under the key
CacheAfterMissStore(cache, key, chunks) ==
    [cache EXCEPT ![key] = File(JsonDumps(chunks))]

\* ./chunk_cache after a call that missed and produced chunks: no statement of
\* recursive_chunk writes a file
CacheAfterMiss(cache, key, chunks) == cache

\* recursive_chunk(docs, language, chunk_size)
RecursiveChunk ==
    /\ module = "recursiveChunker"
    /\ c_call.op = "idle"
    /\ \E docs \in DocLists, language \in Langs, chunk_size \in 1..MaxChunkSize :
          LET key == <<language, chunk_size>>
              call == [IdleChunkCall EXCEPT !.op = "recursive_chunk", !.docs = docs,
                           !.language = language, !.chunk_size = chunk_size,
                           !.cacheBefore = c_cache]
              loaded == JsonLoads(c_cache[key].text)
              chunks == ChunkingPass(docs, 1, language, chunk_size)
          IN  IF c_cache[key].exists
              THEN /\ c_cache' = c_cache
                   /\ c_call' = IF loaded.ok THEN [call EXCEPT !.chunks = loaded.v]
                                ELSE [call EXCEPT !.raised = "JSONDecodeError"]
              ELSE /\ c_cache' = CacheAfterMiss(c_cache, key, chunks)
                   /\ c_call' = [call EXCEPT !.chunks = chunks]
    /\ UNCHANGED <<module, mvars, hvars, bvars>>

\* the call is over: its result and locals are gone
ChunkReturn ==
    /\ module = "recursiveChunker"
    /\ c_call.op # "idle"
    /\ c_call' = IdleChunkCall
    /\ UNCHANGED <<module, mvars, hvars, bvars, c_cache>>

-----------------------------------------------------------------------------
(* merge_model.py: merge_files.  A file name is a sequence of characters,  *)
(* each character its code point, so that str comparison and startswith    *)
(* are computed as Python computes them.  A directory holds regular files. *)

\* code points of the characters file names are made of
NameChars == {1, 2}

Names == UNION {[1..n -> NameChars] : n \in 1..MaxNameLen}

\* chunk_prefix may be the empty string
Prefixes == Names \cup {<<>>}

\* the bytes of a file before the first call; a file may be empty
Contents == {<<>>, <<1>>, <<2>>}

NoFiles == [f \in {} |-> <<>>]

\* the path directory names nothing
NoDirectory == [exists |-> FALSE, files |-> NoFiles]

Directory(files) == [exists |-> TRUE, files |-> files]

Directories ==
    {NoDirectory} \cup
    {Directory(fs) : fs \in UNION {[S -> Contents] :
                                   S \in {T \in SUBSET Names : Cardinality(T) <= MaxFiles}}}

MergeArgs == [output_filename : Names, chunk_prefix : Prefixes]

\* str.startswith
StartsWith(f, prefix) ==
    /\ Len(prefix) <= Len(f)
    /\ SubSeq(f, 1, Len(prefix)) = prefix

\* a < b on str: the first differing character decides, else the shorter is less
StrLess(a, b) ==
    LET n == Min(Len(a), Len(b))
        diff == {i \in 1..n : a[i] # b[i]}
    IN  IF diff = {} THEN Len(a) < Len(b)
        ELSE LET i == CHOOSE k \in diff : \A l \in diff : k <= l
             IN  a[i] < b[i]

\* sorted() of a list of distinct str
RECURSIVE Sorted(_)
Sorted(S) ==
    IF S = {} THEN <<>>
    ELSE LET m == CHOOSE x \in S : \A y \in S \ {x} : StrLess(x, y)
         IN  <<m>> \o Sorted(S \ {m})

Reverse(s) == [i \in 1..Len(s) |-> s[Len(s) + 1 - i]]

\* os.listdir
ListDir(dir) == DOMAIN dir.files

\* (variant) the parts in descending order of name
PartsDescending(dir, chunk_prefix) ==
    Reverse(Sorted({f \in ListDir(dir) : StartsWith(f, chunk_prefix)}))

\* parts = sorted([f for f in os.listdir(directory) if f.startswith(chunk_prefix)])
Parts(dir, chunk_prefix) ==
    Sorted({f \in ListDir(dir) : StartsWith(f, chunk_prefix)})

\* what the loop over parts writes to outfile, from parts[i] on
RECURSIVE WriteParts(_, _, _)
WriteParts(dir, parts, i) ==
    IF i > Len(parts) THEN <<>>
    ELSE dir.files[parts[i]] \o WriteParts(dir, parts, i + 1)

\* merge_files(directory, output_filename, chunk_prefix): the directory after
\* the call and the exception the call ends with
merge_files(dir, output_filename, chunk_prefix) ==
    LET parts == Parts(dir, chunk_prefix)
    IN  IF output_filename \in ListDir(dir)
        THEN [dir |-> dir, raised |-> "none", wrote |-> FALSE]
        ELSE IF ~dir.exists
        THEN [dir |-> dir, raised |-> "FileNotFoundError", wrote |-> FALSE]
        ELSE IF parts = <<>>
        THEN [dir |-> dir, raised |-> "none", wrote |-> FALSE]
        ELSE [dir |-> Directory(dir.files @@
                                (output_filename :> WriteParts(dir, parts, 1))),
              raised |-> "none", wrote |-> TRUE]

\* merged records that an earlier call of the behaviour wrote the output file
IdleMergeCall == [op |-> "idle", before |-> NoDirectory, raised |-> "none",
                  wrote |-> FALSE, merged |-> FALSE]

\* one run of the script: merge_files with the script's arguments
MergeFilesCall ==
    /\ module = "merge_model"
    /\ LET r == merge_files(m_dir, m_args.output_filename, m_args.chunk_prefix)
       IN  /\ m_dir' = r.dir
           /\ m_call' = [op |-> "merge_files", before |-> m_dir,
                         raised |-> r.raised, wrote |-> r.wrote,
                         merged |-> m_call.merged \/ m_call.wrote]
    /\ UNCHANGED <<module, m_args, hvars, bvars, cvars>>

-----------------------------------------------------------------------------
(* Specifications *)

HybridUnused ==
    /\ h_env = [hybridSearcherBound |-> FALSE, config |-> FALSE, denseIndex |-> FALSE]
    /\ h_store = [d \in Docs |-> NoDoc]
    /\ h_obj = NoObject
    /\ h_call = IdleCall

BM25Unused ==
    /\ b_path = "None"
    /\ b_disk = NoDir
    /\ b_obj = NoBM25
    /\ b_call = IdleBM25Call

ChunkerUnused ==
    /\ c_cache = [k \in CacheKeys |-> NoFile]
    /\ c_call = IdleChunkCall

MergeUnused ==
    /\ m_args = [output_filename |-> <<1>>, chunk_prefix |-> <<>>]
    /\ m_dir = NoDirectory
    /\ m_call = IdleMergeCall

InitHybrid ==
    /\ module = "pyserini_retriever"
    /\ h_env \in HybridEnvs
    /\ h_store \in HybridStores
    /\ h_obj = NoObject
    /\ h_call = IdleCall
    /\ BM25Unused
    /\ ChunkerUnused
    /\ MergeUnused

\* index_path is None (a temporary directory per construction), or a path at
\* which nothing, or some index, is found
InitBM25 ==
    /\ module = "pyserini_bm25"
    /\ \/ b_path = "None" /\ b_disk = NoDir
       \/ b_path = "P" /\ b_disk \in {NoDir} \cup {BuiltDir(x) : x \in ForeignIndexes}
    /\ b_obj = NoBM25
    /\ b_call = IdleBM25Call
    /\ HybridUnused
    /\ ChunkerUnused
    /\ MergeUnused

InitChunker ==
    /\ module = "recursiveChunker"
    /\ c_cache \in [CacheKeys -> CacheFiles]
    /\ c_call = IdleChunkCall
    /\ HybridUnused
    /\ BM25Unused
    /\ MergeUnused

NextHybrid == HybridInit \/ HybridRetrieve \/ HybridReturn

NextBM25 == BM25Load \/ BM25Build \/ BM25Retrieve \/ BM25Return

SpecHybrid == InitHybrid /\ [][NextHybrid]_vars

SpecBM25 == InitBM25 /\ [][NextBM25]_vars

NextChunker == RecursiveChunk \/ ChunkReturn

SpecChunker == InitChunker /\ [][NextChunker]_vars

InitMerge ==
    /\ module = "merge_model"
    /\ m_args \in MergeArgs
    /\ m_dir \in Directories
    /\ m_call = IdleMergeCall
    /\ HybridUnused
    /\ BM25Unused
    /\ ChunkerUnused

NextMerge == MergeFilesCall

SpecMerge == InitMerge /\ [][NextMerge]_vars

SpecRetrievers == (InitHybrid \/ InitBM25) /\ [][NextHybrid \/ NextBM25]_vars

-----------------------------------------------------------------------------
(* Weighted reciprocal rank fusion, as the specification states it *)

RankIn(hits, d) == CHOOSE i \in DOMAIN hits : hits[i].docid = d

\* ten times the fused score of d, as the fraction num / den: rank constant 60,
\* weights sparse_ratio and dense_ratio (tenths), 1-based ranks, 0 for a backend
\* whose list does not hold d
Fused(sparse, dense, d) ==
    LET s == IF d \in DocIds(sparse) THEN 60 + RankIn(sparse, d) ELSE 0
        e == IF d \in DocIds(dense) THEN 60 + RankIn(dense, d) ELSE 0
    IN  IF s # 0 /\ e # 0 THEN [num |-> sparse_ratio * e + dense_ratio * s, den |-> s * e]
        ELSE IF s # 0 THEN [num |-> sparse_ratio, den |-> s]
        ELSE [num |-> dense_ratio, den |-> e]

\* d comes before e: higher fused score, or the same score and the lower doc-id
RRFBefore(sparse, dense, d, e) ==
    LET a == Fused(sparse, dense, d)
        b == Fused(sparse, dense, e)
    IN  \/ a.num * b.den > b.num * a.den
        \/ a.num * b.den = b.num * a.den /\ d < e

RRFOrder(sparse, dense, top_k) ==
    LET union == DocIds(sparse) \cup DocIds(dense)
        p == CHOOSE q \in Perms(union) :
                 \A i, j \in DOMAIN q : i < j => RRFBefore(sparse, dense, q[i], q[j])
    IN  SubSeq(p, 1, Min(top_k, Len(p)))

-----------------------------------------------------------------------------
(* Claims *)

\* C1: retrieve returns its hits in the order of weighted reciprocal rank fusion
\* of the sparse and dense lists (rank constant 60, weights 0.3 and 0.7, ties by
\* ascending doc-id, cut to top_k) and each returned score is the fused score.
C1_RetrieveIsRRF ==
    (h_call.op = "retrieve" /\ h_call.raised = "none") =>
        /\ [i \in DOMAIN h_call.hits |-> h_call.hits[i].docid]
              = RRFOrder(h_call.sparse, h_call.dense, h_call.top_k)
        /\ \A i \in DOMAIN h_call.hits :
              LET f == Fused(h_call.sparse, h_call.dense, h_call.hits[i].docid)
              IN  h_call.hits[i].score * f.den = f.num

\* the texts an index stores in a raw payload: its flat contents and its nested
\* original_content
StoredTexts(raw_str) ==
    LET outer == JsonLoads(raw_str)
        inner == JsonLoads(outer.v["raw"])
    IN  IF ~outer.ok THEN {}
        ELSE (IF "contents" \in DOMAIN outer.v THEN {outer.v["contents"]} ELSE {})
             \cup (IF "raw" \in DOMAIN outer.v /\ inner.ok
                      /\ "original_content" \in DOMAIN inner.v
                   THEN {inner.v["original_content"]} ELSE {})

\* C2: no fabrication.  Every doc-id HybridRetriever.retrieve returns is in the
\* sparse or the dense raw result list of the query; every node
\* PyseriniBM25Retriever._retrieve returns belongs to a hit of the searcher, in
\* the order of the hits, with a text the index stores for that doc-id, and the
\* result is never longer than the hit list.
C2_NoFabrication ==
    /\ h_call.op = "retrieve" =>
          \A i \in DOMAIN h_call.chunks :
              h_call.chunks[i].id \in DocIds(h_call.sparse) \cup DocIds(h_call.dense)
    /\ b_call.op = "retrieve" =>
          /\ Len(b_call.results) <= Len(b_call.hits)
          /\ \A i \in DOMAIN b_call.results :
                LET r == b_call.results[i]
                IN  /\ r.doc_id \in SeqToSet(b_call.hits)
                    /\ r.node.text \in StoredTexts(IndexDoc(b_obj.index, r.doc_id).raw)
          /\ \A i, j \in DOMAIN b_call.results : i < j =>
                \E m, n \in DOMAIN b_call.hits :
                    /\ m < n
                    /\ b_call.hits[m] = b_call.results[i].doc_id
                    /\ b_call.hits[n] = b_call.results[j].doc_id

C2_Witness ==
    /\ b_call.op = "retrieve"
    /\ Len(b_call.hits) = 2
    /\ Len(b_call.results) = 1

\* a stored document that resolves to a payload with a contents field
Resolvable(doc) ==
    /\ doc.found
    /\ JsonLoads(doc.raw).ok
    /\ "contents" \in DOMAIN JsonLoads(doc.raw).v

\* C3: in retrieve a hit that cannot be resolved (no document, raw payload not
\* valid JSON, no 'contents' field) is dropped and the call does not raise; no
\* returned chunk has empty page_content.
C3_UnresolvableDropped ==
    h_call.op = "retrieve" =>
        /\ h_call.raised = "none"
        /\ \A i \in DOMAIN h_call.chunks : h_call.chunks[i].page_content # ""
        /\ [i \in DOMAIN h_call.chunks |-> h_call.chunks[i].id]
              = SelectSeq([i \in DOMAIN h_call.hits |-> h_call.hits[i].docid],
                          LAMBDA d : Resolvable(h_store[d]))

Layered(raw_str) ==
    LET outer == JsonLoads(raw_str)
        inner == JsonLoads(outer.v["raw"])
    IN  IF ~outer.ok THEN NoNode
        ELSE IF /\ "raw" \in DOMAIN outer.v
                /\ inner.ok
                /\ Get(inner.v, "original_content", "") # ""
             THEN SomeNode(TextNode(inner.v["original_content"],
                                    Get(inner.v, "metadata", EmptyObj)))
        ELSE IF Get(outer.v, "contents", "") # ""
             THEN SomeNode(TextNode(outer.v["contents"], EmptyObj))
        ELSE NoNode

\* C4: payload resolution follows the layered order: a nested 'raw' envelope
\* with a non-empty original_content gives the document (with its metadata);
\* otherwise, also when the nested envelope is not valid JSON, a non-empty flat
\* 'contents' gives it; only when both fail is the document excluded.
C4_LayeredResolution ==
    /\ b_call.op = "retrieve" =>
          \A i \in DOMAIN b_call.hits :
              LET doc_id == b_call.hits[i]
                  want == Layered(IndexDoc(b_obj.index, doc_id).raw)
                  got == {n \in DOMAIN b_call.results : b_call.results[n].doc_id = doc_id}
              IN  doc_id \notin DOMAIN b_obj.node_dict =>
                      /\ want.ok <=> got # {}
                      /\ \A n \in got : b_call.results[n].node = want.node
    /\ (b_call.op = "init" /\ b_call.pathExisted /\ b_call.raised = "none") =>
          \A i \in 0..(Len(b_call.nodes) - 1) :
              LET want == Layered(IndexDoc(b_obj.index, i).raw)
              IN  IndexDoc(b_obj.index, i).found =>
                      /\ want.ok <=> i \in DOMAIN b_obj.node_dict
                      /\ i \in DOMAIN b_obj.node_dict => b_obj.node_dict[i] = want.node

\* C5: for every doc_i written by _build_index, the node of the lookup table
\* and the node reconstructed from the stored raw payload (fallback of
\* _retrieve, _rebuild_node_dict after reopening) have the same content and
\* metadata, and one path yields a node exactly when the other does.
C5_FallbackEquivalence ==
    (b_call.op = "init" /\ b_call.ranIndexer /\ b_call.raised = "none") =>
        \A i \in 0..(Len(b_call.nodes) - 1) :
            LET fast == b_obj.node_dict[i]
                slow == RetrieveResolve(IndexDoc(b_obj.index, i).raw)
                reopened == RebuildNodeDict(b_obj.index, Len(b_call.nodes))
            IN  /\ slow.ok
                /\ slow.node.text = fast.text
                /\ slow.node.metadata = fast.metadata
                /\ i \in DOMAIN reopened
                /\ reopened[i] = fast

\* C7: with the same index_path, a construction that finds the path loads the
\* index, does not run the indexer and leaves the directory as it was; the
\* indexer runs only when the path does not exist; and a path that exists is
\* always a built, loadable index.
C7_BuildIdempotent ==
    /\ (b_call.op = "init" /\ b_path # "None" /\ b_call.pathExisted) =>
          /\ ~b_call.ranIndexer
          /\ b_disk = b_call.diskBefore
          /\ b_call.raised = "none"
    /\ (b_call.op = "init" /\ b_path # "None" /\ b_call.ranIndexer) =>
          ~b_call.diskBefore.exists
    /\ (b_path # "None" /\ b_disk.exists) => b_disk.built

\* C8: the analyzer of the searcher at query time is the analyzer the index it
\* searches was built with, also for an index built by an earlier construction
\* with another language.
C8_AnalyzerConsistent ==
    (b_obj.constructed /\ b_obj.index \notin ForeignIndexes) =>
        QueryAnalyzer(b_obj.language) = b_obj.index.analyzer

\* C9 as stated: after a call that misses the cache and completes its chunking
\* pass, the produced chunks are stored under the key (so the next load of the
\* key returns them).
C9_MissStores ==
    (c_call.op = "recursive_chunk"
        /\ c_call.chunks # <<>>
        /\ ~c_call.cacheBefore[<<c_call.language, c_call.chunk_size>>].exists) =>
        LET file == c_cache[<<c_call.language, c_call.chunk_size>>]
        IN  /\ file.exists
            /\ JsonLoads(file.text).ok
            /\ JsonLoads(file.text).v = c_call.chunks

\* C9 amended: recursive_chunk never writes the cache.  After a call that
\* misses and completes its chunking pass the key still has no entry (the next
\* call with that key recomputes from its own docs); a call that finds a
\* parseable entry returns the entry's sequence; and no call changes anything
\* in the cache, so a second load returns the same sequence.
C9_CacheReadOnly ==
    c_call.op = "recursive_chunk" =>
        LET key == <<c_call.language, c_call.chunk_size>>
        IN  /\ c_cache = c_call.cacheBefore
            /\ ~c_call.cacheBefore[key].exists =>
                  /\ ~c_cache[key].exists
                  /\ c_call.raised = "none"
                  /\ \A i \in DOMAIN c_call.chunks :
                        \E j \in DOMAIN c_call.docs :
                            /\ "content" \in DOMAIN c_call.docs[j]
                            /\ c_call.chunks[i].metadata = Meta(c_call.docs[j])
            /\ (c_call.cacheBefore[key].exists /\ c_call.raised = "none") =>
                  JsonDumps(c_call.chunks) = c_cache[key].text

C9_Witness ==
    /\ c_call.op = "recursive_chunk"
    /\ ~c_call.cacheBefore[<<c_call.language, c_call.chunk_size>>].exists
    /\ Len(c_call.chunks) = 2
    /\ ~c_cache[<<c_call.language, c_call.chunk_size>>].exists

\* C10: a cache entry that exists for the key but fails to parse is treated as
\* a miss: the call recomputes the chunks from docs and returns them, and the
\* parse error does not reach the caller.
C10_CorruptIsMiss ==
    LET file == c_call.cacheBefore[<<c_call.language, c_call.chunk_size>>]
    IN  (c_call.op = "recursive_chunk" /\ file.exists /\ ~JsonLoads(file.text).ok) =>
            /\ c_call.raised = "none"
            /\ c_call.chunks
                  = ChunkingPass(c_call.docs, 1, c_call.language, c_call.chunk_size)

\* the bytes of the files named by the list p, one after the other
RECURSIVE Concatenation(_, _)
Concatenation(files, p) ==
    IF p = <<>> THEN <<>> ELSE files[Head(p)] \o Concatenation(files, Tail(p))

\* C11: merge_files never modifies an existing output file: when the output
\* path exists the call changes nothing in the directory (so a call after a
\* completed merge is a no-op); when the output does not exist and no file
\* name starts with chunk_prefix no output file is created; otherwise the output
\* file created is the concatenation of all files whose names start with
\* chunk_prefix, in ascending lexicographic order of file name, and the part
\* files are left unchanged.
C11_MergeFiles ==
    m_call.op = "merge_files" =>
        LET before == m_call.before.files
            after == m_dir.files
            out == m_args.output_filename
            matching == {f \in DOMAIN before : StartsWith(f, m_args.chunk_prefix)}
        IN  /\ out \in DOMAIN before => m_dir = m_call.before
            /\ (out \notin DOMAIN before /\ matching = {}) => out \notin DOMAIN after
            /\ (out \notin DOMAIN before /\ matching # {}) =>
                  /\ out \in DOMAIN after
                  /\ \E p \in Perms(matching) :
                        /\ \A i, j \in DOMAIN p : i < j => StrLess(p[i], p[j])
                        /\ after[out] = Concatenation(before, p)
                  /\ \A f \in DOMAIN before : after[f] = before[f]

\* the call after a completed merge of the parts "12" and "2", which hold
\* different bytes
C11_Witness ==
    /\ m_call.op = "merge_files"
    /\ m_call.merged
    /\ ~m_call.wrote
    /\ m_args.chunk_prefix = <<>>
    /\ {<<1, 2>>, <<2>>} \subseteq DOMAIN m_dir.files
    /\ m_dir.files[<<1, 2>>] # m_dir.files[<<2>>]
    /\ m_dir.files[m_args.output_filename]
          = m_dir.files[<<1, 2>>] \o m_dir.files[<<2>>]

====
